---- MODULE Spec2Model ----
(***************************************************************************)
(* A model of the Primoco-to-Actual migrator (runImport and the functions  *)
(* it calls: loadCSV, importAccounts, importCategories,                    *)
(* importTransactions).                                                    *)
(*                                                                         *)
(* Conventions.                                                            *)
(*  - A text is a sequence of tokens; a token stands for one character or  *)
(*    an indivisible run of characters ("Giro", " ", "&amp;").  The empty  *)
(*    string is <<>>.  Concatenation is \o.                                *)
(*  - null, undefined and an absent property are all None (<<>>); a        *)
(*    present value v of an optional field is Some(v) (<<v>>).             *)
(*  - Fresh identifiers (the ledger's ids, uuidv4()) come from one counter *)
(*    nextId: any two of them differ.                                      *)
(*  - sha256(JSON.stringify(row)) is collision free on the inputs: the     *)
(*    fingerprint of a row is the raw row.                                 *)
(***************************************************************************)
EXTENDS Integers, Sequences, FiniteSets, TLC

\* ------------------------------------------------------------------ bounds
\* Longest input file of a whole run, in data rows.
MaxRows == 2

\* Longest input file of loadCSV run alone, in data rows.
MaxParseRows == 3

\* Longest input file of a run with configuration values missing.
MaxConfigRows == 1

\* Longest input file of the amount conversion runs, in data rows, and the
\* most digits after the comma of their Value fields.
MaxValueRows == 2
MaxFracDigits == 3

\* ------------------------------------------------------------- constants
\* Batch length of the delivery loop.
BatchSize == 1000

None == <<>>
Some(v) == <<v>>

\* process.env.MARK_CLEARED === "true", for an unset variable.
MARK_CLEARED == FALSE

\* ------------------------------------------------------------------ texts
Range(s) == {s[i] : i \in 1..Len(s)}

RECURSIVE MapSeq(_, _)
\* s with every token t replaced by f[t] when t is in f's domain.
MapSeq(f, s) ==
    IF s = <<>> THEN <<>>
    ELSE <<IF Head(s) \in DOMAIN f THEN f[Head(s)] ELSE Head(s)>> \o MapSeq(f, Tail(s))

\* The table of Latin-1 misencodings replaced by cleanData.  A misencoded
\* letter is one token, written by its code points ("<C3><A4>" is the two
\* characters that a-umlaut, "<E4>", was exported as).
encodingFixes ==
    [w \in {"<C3><A4>", "<C3><B6>", "<C3><BC>", "<C3><9F>", "<C3><A9>"} |->
        CASE w = "<C3><A4>" -> "<E4>" [] w = "<C3><B6>" -> "<F6>"
          [] w = "<C3><BC>" -> "<FC>" [] w = "<C3><9F>" -> "<DF>"
          [] w = "<C3><A9>" -> "<E9>"]

\* he.decode on the entity tokens of the inputs.
heDecodeTable ==
    [w \in {"&amp;", "&gt;", "&lt;"} |->
        CASE w = "&amp;" -> "&" [] w = "&gt;" -> ">" [] w = "&lt;" -> "<"]

RECURSIVE TrimLeft(_)
TrimLeft(s) == IF s # <<>> /\ Head(s) = " " THEN TrimLeft(Tail(s)) ELSE s

RECURSIVE TrimRight(_)
TrimRight(s) ==
    IF s # <<>> /\ s[Len(s)] = " " THEN TrimRight(SubSeq(s, 1, Len(s) - 1)) ELSE s

\* String.prototype.trim
Trim(s) == TrimRight(TrimLeft(s))

\* cleanData(text): "" for an empty or missing text, else the encoding
\* fixes, then trim, then the HTML entity decoding.
cleanData(text) ==
    IF text = <<>> THEN <<>>
    ELSE MapSeq(heDecodeTable, Trim(MapSeq(encodingFixes, text)))

\* ------------------------------------------------------------------ dates
\* A Date field is None (the column is missing from the row) or a triple
\* <<day, month, year>> of the numbers written in it; a field that is not
\* three numbers is the triple <<0, 0, 0>>.
IsLeap(y) == (y % 4 = 0 /\ y % 100 # 0) \/ y % 400 = 0

DaysInMonth(m, y) ==
    IF m = 2 THEN (IF IsLeap(y) THEN 29 ELSE 28)
    ELSE IF m \in {4, 6, 9, 11} THEN 30 ELSE 31

\* date-fns parse(dateString, "dd.MM.yyyy", ...) gives a valid Date: the
\* year token takes one to four digits and the year 0 is not valid.
IsValidDate(ds) ==
    /\ Len(ds) = 3
    /\ ds[3] \in 1..9999
    /\ ds[2] \in 1..12
    /\ ds[1] >= 1 /\ ds[1] <= DaysInMonth(ds[2], ds[3])

\* parseDate(dateString): the date as <<year, month, day>> ("yyyy-MM-dd"),
\* or None when format() throws on an Invalid Date.
parseDate(ds) == IF IsValidDate(ds) THEN <<ds[3], ds[2], ds[1]>> ELSE None

\* The days of a <<day, month, year>> date on a monotone scale.
DayNumber(ds) == ds[3] * 372 + ds[2] * 31 + ds[1]

\* isAfter(parse(row["Date"], ...), new Date()): the parsed date is local
\* midnight of its day, the clock is some moment of day `now`.
isAfterNow(ds, now) == DayNumber(ds) > DayNumber(now)

\* ----------------------------------------------------------------- values
\* A Value field: blank, or a sign, the digits before the comma as a number
\* and the digits after it as a sequence.
RECURSIVE Pow10(_)
Pow10(n) == IF n = 0 THEN 1 ELSE 10 * Pow10(n - 1)

RECURSIVE DigitsValue(_)
DigitsValue(ds) == IF ds = <<>> THEN 0 ELSE DigitsValue(SubSeq(ds, 1, Len(ds) - 1)) * 10 + ds[Len(ds)]

\* A Number (IEEE 754 binary64) that is not zero is its magnitude
\* m * 2^e, with m written as 53 bits, the first of them 1; zero is Zero.
\* The sign is kept beside it.
MantissaBits == 53

Zero == [zero |-> TRUE, m |-> <<>>, e |-> 0]

RECURSIVE BitsOf(_)
\* The binary digits of a natural number, most significant first.
BitsOf(n) == IF n = 0 THEN <<>> ELSE BitsOf(n \div 2) \o <<n % 2>>

RECURSIVE BitsInt(_)
BitsInt(b) == IF b = <<>> THEN 0 ELSE 2 * BitsInt(SubSeq(b, 1, Len(b) - 1)) + b[Len(b)]

RECURSIVE Inc(_)
\* b + 1, for bits b that are not all 1.
Inc(b) ==
    IF b[Len(b)] = 0 THEN SubSeq(b, 1, Len(b) - 1) \o <<1>>
    ELSE Inc(SubSeq(b, 1, Len(b) - 1)) \o <<0>>

\* Round to nearest, ties to even: keep are the 53 leading bits of the exact
\* value, roundBit the next one, sticky tells whether any later bit is 1,
\* e is the exponent of keep's last bit.
RoundNearestEven(keep, roundBit, sticky, e) ==
    IF ~(roundBit = 1 /\ (sticky \/ keep[MantissaBits] = 1))
    THEN [zero |-> FALSE, m |-> keep, e |-> e]
    ELSE IF \A i \in 1..MantissaBits : keep[i] = 1
    THEN [zero |-> FALSE, m |-> <<1>> \o [i \in 1..(MantissaBits - 1) |-> 0], e |-> e + 1]
    ELSE [zero |-> FALSE, m |-> Inc(keep), e |-> e]

RECURSIVE DivBits(_, _, _, _)
\* The Number nearest to the quotient whose binary expansion so far is
\* bits (leading zeros dropped, last bit of exponent e) with remainder r
\* over the divisor d.
DivBits(bits, r, d, e) ==
    IF Len(bits) = MantissaBits
    THEN RoundNearestEven(bits, IF 2 * r >= d THEN 1 ELSE 0, (2 * r) % d # 0, e)
    ELSE LET b == IF 2 * r >= d THEN 1 ELSE 0
         IN  DivBits(IF bits = <<>> /\ b = 0 THEN <<>> ELSE Append(bits, b), (2 * r) % d, d, e - 1)

\* parseFloat of the decimal numeral n / d (d a power of ten): the Number
\* nearest to it.
parseFloat(n, d) == IF n = 0 THEN Zero ELSE DivBits(BitsOf(n \div d), n % d, d, 0)

RECURSIVE MulSmall(_, _, _, _)
\* The bits of (b * k + carry) followed by acc.
MulSmall(b, k, carry, acc) ==
    IF b = <<>> THEN BitsOf(carry) \o acc
    ELSE MulSmall(SubSeq(b, 1, Len(b) - 1), k, (b[Len(b)] * k + carry) \div 2,
                  <<(b[Len(b)] * k + carry) % 2>> \o acc)

\* x * 100 in Number arithmetic: the exact product, rounded.
Times100(x) ==
    IF x.zero THEN Zero
    ELSE LET p == MulSmall(x.m, 100, 0, <<>>)
         IN  RoundNearestEven(SubSeq(p, 1, MantissaBits), p[MantissaBits + 1],
                              \E j \in (MantissaBits + 2)..Len(p) : p[j] = 1,
                              x.e + (Len(p) - MantissaBits))

\* Math.round of the Number with magnitude x and the sign neg, below 2^52:
\* the nearest integer, a tie going to the greater one.
MathRound(neg, x) ==
    IF x.zero THEN 0
    ELSE LET k == MantissaBits + x.e
             whole == IF k <= 0 THEN 0 ELSE BitsInt(SubSeq(x.m, 1, k))
             half == IF k < 0 THEN 0 ELSE x.m[k + 1]
             more == IF k < 0 THEN TRUE ELSE \E j \in (k + 2)..MantissaBits : x.m[j] = 1
         IN  IF neg THEN 0 - (whole + (IF half = 1 /\ more THEN 1 ELSE 0))
             ELSE whole + half

\* Math.round(parseFloat(row["Value"].replace(",", ".") || "0") * 100)
parseValue(v) ==
    IF v.blank THEN 0
    ELSE LET d == Pow10(Len(v.frac))
         IN  MathRound(v.neg, Times100(parseFloat(v.whole * d + DigitsValue(v.frac), d)))

\* ------------------------------------------------------------------- rows
\* String.prototype.toLowerCase on the Entry Type column.
toLowerCase(t) ==
    CASE t = "Expense" -> "expense"
      [] t = "Income" -> "income"
      [] t = "Transfer" -> "transfer"
      [] OTHER -> t

Val(neg, whole, frac) == [blank |-> FALSE, neg |-> neg, whole |-> whole, frac |-> frac]
BlankVal == [blank |-> TRUE, neg |-> FALSE, whole |-> 0, frac |-> <<>>]

\* A row of the export, as csv-parser hands it to the "data" handler.
Row(date, type, value, category, person, account, counter, group) ==
    [Date |-> date, EntryType |-> type, Value |-> value, Category |-> category,
     Person |-> person, Account |-> account, CounterAccount |-> counter,
     Group |-> group, Note |-> <<"n">>]

Past == <<14, 3, 2024>>
Today == <<15, 3, 2024>>
Future == <<16, 3, 2024>>

\* The moments new Date() may give during a run.
NowChoices == {Today}

RowExpense == Row(Past, "Expense", Val(FALSE, 5, <<0, 0>>), <<"Gifts">>, <<"Bob">>, <<"Giro">>, <<>>, <<>>)
RowIncome == Row(Today, "Income", Val(FALSE, 12, <<3, 4>>), <<"Gifts">>, <<>>, <<"Giro">>, <<>>, <<"Fam">>)
RowTransfer == Row(Past, "Transfer", Val(FALSE, 7, <<5>>), <<>>, <<>>, <<"Giro">>, <<"Cash">>, <<>>)
RowTransferNoCounter == Row(Past, "Transfer", Val(FALSE, 3, <<>>), <<"Gifts">>, <<"Bob">>, <<" ", "Cash">>, <<" ">>, <<"Fam">>)
RowFuture == Row(Future, "Expense", Val(TRUE, 0, <<0, 1>>), <<"Other">>, <<>>, <<"Depot">>, <<"Giro">>, <<>>)
RowBadDate == Row(<<31, 2, 2024>>, "Expense", BlankVal, <<"Other">>, <<>>, <<"Depot">>, <<>>, <<>>)
RowYearZero == Row(<<1, 1, 0>>, "Income", BlankVal, <<"Other">>, <<>>, <<"Depot">>, <<>>, <<>>)
RowNoDate == Row(None, "Expense", BlankVal, <<>>, <<>>, <<>>, <<>>, <<>>)
RowExpenseNoCategory == Row(Today, "Expense", Val(FALSE, 2, <<>>), <<>>, <<>>, <<"Giro">>, <<>>, <<>>)
RowNoAccount == Row(Past, "Expense", Val(TRUE, 0, <<0, 1>>), <<"B", "<C3><A4>", "r">>, <<>>, <<>>, <<>>, <<>>)

\* The rows a file of the full pipeline is made of.
Rows == {RowExpense, RowIncome, RowTransfer, RowTransferNoCounter, RowExpenseNoCategory,
         RowNoAccount}

\* The rows a file of the parse pass alone is made of.
ParseRows == Rows \cup {RowFuture, RowBadDate, RowYearZero, RowNoDate}

\* The end-to-end fixture: three expense rows, an income row, a transfer
\* between two accounts of the file and a row dated after the clock.
RowExpenseCash == Row(Past, "Expense", Val(TRUE, 0, <<0, 1>>), <<"Other">>, <<>>, <<"Cash">>, <<>>, <<>>)
RowExpenseGroup == Row(Today, "Expense", Val(FALSE, 1, <<>>), <<"Gifts">>, <<>>, <<"Giro">>, <<>>, <<"Fam">>)
Fixture == <<RowExpense, RowExpenseCash, RowExpenseGroup, RowIncome, RowTransfer, RowFuture>>

\* All sequences over S of length at most n.
SeqsUpTo(S, n) == UNION {[1..k -> S] : k \in 0..n}

\* The Value fields of the amount conversion runs: blank, or an optional
\* minus, digits, and up to MaxFracDigits digits after a comma.
Values ==
    {BlankVal} \cup
    {Val(neg, whole, frac) : neg \in BOOLEAN, whole \in {0, 1, 12},
                            frac \in SeqsUpTo({0, 5}, MaxFracDigits) \cup {<<3, 4>>, <<0, 1>>}}

\* An expense row with the Value field v.
ValueRow(v) == Row(Past, "Expense", v, <<"Gifts">>, <<>>, <<"Giro">>, <<>>, <<>>)

\* ------------------------------------------------------------------ state
VARIABLES
    pc,             \* where runImport stands: the call it awaits
    exitCode,       \* None while the process runs, Some(code) once it ended
    apiLog,         \* the collaborator calls issued so far, in order
    FORCE_DUPLICATES,
    missingConfig,  \* the required configuration values that are not set
    now,            \* the clock
    file,           \* the data rows of the source file
    rowIdx,         \* the next row the "data" handler gets
    transactions, accounts, categories, importedIdMap,   \* loadCSV's result
    accountIdMap, categoryIdMap,
    existingAccounts, existingCategories, importedGroup, incomeGroup,
    pendingAccounts,   \* createAccount calls in flight (names)
    createdAccounts,   \* the accounts the ledger created in this run
    createdCategories, \* the categories the ledger created in this run
    pendingCategories, \* createCategory calls in flight (categories)
    nextId,            \* the next fresh identifier
    payeesByAccount, txIdx, transactionsByAccount,
    acctPos, batchStart,  \* the delivery loop: position in the map, i
    emitted         \* history: per handled transaction, the transaction as
                    \* the loop got it and the postings it pushed

parseVars == <<file, rowIdx, transactions, accounts, categories, importedIdMap>>
acctVars == <<accountIdMap, existingAccounts, pendingAccounts, createdAccounts>>
catVars == <<categoryIdMap, existingCategories, importedGroup, incomeGroup, pendingCategories,
            createdCategories>>
txVars == <<payeesByAccount, txIdx, transactionsByAccount, acctPos, batchStart, emitted>>
envVars == <<FORCE_DUPLICATES, now, missingConfig>>
vars == <<pc, exitCode, apiLog, envVars, parseVars, acctVars, catVars, txVars, nextId>>

Call(op, arg) == <<op, arg>>

\* The configuration values the Readme marks as required: process.env has
\* them or not.
RequiredConfig == {"SERVER_URL", "ACTUAL_PASSWORD", "SYNC_ID", "CSV_FILE_PATH"}

\* The state at label with the calls of log issued and nothing else done,
\* for a source file of files and the values of one of configs missing.
InitWith(files, label, log, configs) ==
    /\ pc = label
    /\ exitCode = None
    /\ apiLog = log
    /\ FORCE_DUPLICATES \in BOOLEAN
    /\ missingConfig \in configs
    /\ now \in NowChoices
    /\ file \in files
    /\ rowIdx = 1
    /\ transactions = <<>>
    /\ accounts = <<>>
    /\ categories = <<>>
    /\ importedIdMap = <<>>
    /\ accountIdMap = <<>>
    /\ categoryIdMap = <<>>
    /\ existingAccounts = <<>>
    /\ existingCategories = <<>>
    /\ importedGroup = None
    /\ incomeGroup = None
    /\ pendingAccounts = {}
    /\ pendingCategories = {}
    /\ createdAccounts = {}
    /\ createdCategories = {}
    /\ nextId = 1
    /\ payeesByAccount = <<>>
    /\ txIdx = 1
    /\ transactionsByAccount = <<>>
    /\ acctPos = 1
    /\ batchStart = 0
    /\ emitted = <<>>

\* The same with every required configuration value set.
InitAt(files, label, log) == InitWith(files, label, log, {{}})

\* The process starts.
Init == InitAt(SeqsUpTo(Rows, MaxRows), "start", <<>>)

\* ------------------------------------------------------------------- maps
\* Map.prototype.set / get / has on a Map modelled as a function.
MapSet(m, k, v) == [x \in (DOMAIN m) \cup {k} |-> IF x = k THEN v ELSE m[x]]
MapHas(m, k) == k \in DOMAIN m
MapGet(m, k) == IF k \in DOMAIN m THEN Some(m[k]) ELSE None

\* ---------------------------------------------------------------- loadCSV
\* IsDropped with isAfter replaced by "not before": today's rows are dropped.
IsDropped_notBefore(row, clock) ==
    \/ row.Date = None
    \/ parseDate(row.Date) = None
    \/ DayNumber(row.Date) >= DayNumber(clock)

\* The "data" handler returns early: no Date column, a date that does not
\* parse, or a date after the current moment.
IsDropped(row, clock) ==
    \/ row.Date = None
    \/ parseDate(row.Date) = None
    \/ isAfterNow(row.Date, clock)

\* payeeName with the person label and the group label concatenated.
payeeName_bothLabels(counterAccount, person, group) ==
    IF counterAccount # <<>> THEN counterAccount
    ELSE (IF person # <<>> THEN <<"<bust>", " ">> \o person \o <<" ">> ELSE <<>>)
         \o (IF group # <<>> THEN <<"<busts>", " ">> \o group \o <<" ">> ELSE <<>>)

\* const payee_name = counterAccount || (person ? label : "" + group ? label : "")
\* ("+" binds tighter than "?:", so the second condition is ("" + group)).
payeeName(counterAccount, person, group) ==
    IF counterAccount # <<>> THEN counterAccount
    ELSE IF person # <<>> THEN <<"<bust>", " ">> \o person \o <<" ">>
    ELSE IF (<<>> \o group) # <<>> THEN <<"<busts>", " ">> \o group \o <<" ">>
    ELSE <<>>

\* Set.prototype.add on a Set kept in insertion order.
SetAdd(s, x) == IF x \in Range(s) THEN s ELSE Append(s, x)

\* accounts after a row: the account, then the counter account, when non-empty.
addAccounts(accts, accountName, counterAccount) ==
    LET a1 == IF accountName # <<>> THEN SetAdd(accts, accountName) ELSE accts
    IN  IF counterAccount # <<>> THEN SetAdd(a1, counterAccount) ELSE a1

\* categories after a row: the (name, is_income) pair is added unless the
\* name is empty or the pair is already there.
addCategory(cats, categoryName, entryType) ==
    LET c == [name |-> categoryName, is_income |-> (entryType = "income")]
    IN  IF categoryName # <<>> /\ ~(\E i \in 1..Len(cats) : cats[i] = c)
        THEN Append(cats, c) ELSE cats

\* uniqueImportedId counting the row itself among the stored ones.
uniqueImportedId_offByOne(base, idMap, force) ==
    IF MapHas(idMap, base) /\ force THEN <<base, Len(idMap[base]) + 1>> ELSE <<base>>

\* The import identity of a row with fingerprint base: the fingerprint, or
\* with FORCE_DUPLICATES the fingerprint and the number of rows already
\* stored under it (`${baseImportedId}-${duplicateIndex}`).
uniqueImportedId(base, idMap, force) ==
    IF MapHas(idMap, base) /\ force THEN <<base, Len(idMap[base])>> ELSE <<base>>

\* importedIdMap after a row.
addImportedId(idMap, base, uid) ==
    IF MapHas(idMap, base)
    THEN MapSet(idMap, base, Append(idMap[base], [row |-> base, imported_id |-> uid]))
    ELSE MapSet(idMap, base, <<[row |-> base, imported_id |-> <<base>>]>>)

\* The parsed transaction of an accepted row.
parsedTransaction(row, uid) ==
    LET counterAccount == cleanData(row.CounterAccount)
    IN  [date |-> parseDate(row.Date),
         amount |-> parseValue(row.Value),
         category |-> cleanData(row.Category),
         payee_name |-> payeeName(counterAccount, cleanData(row.Person), cleanData(row.Group)),
         notes |-> cleanData(row.Note),
         type |-> toLowerCase(row.EntryType),
         acctName |-> cleanData(row.Account),
         imported_id |-> uid]

\* Entering the catch block of runImport: api.shutdown is called.
Catch ==
    /\ pc' = "shutdownCatch"
    /\ apiLog' = Append(apiLog, Call("shutdown", None))

\* runImport issues the call op and awaits it at label.
Await(label, op, arg) ==
    /\ pc' = label
    /\ apiLog' = Append(apiLog, Call(op, arg))

\* runImport starts: the cache directory is ensured and api.init is called;
\* when fs.mkdirSync throws, the catch block is entered instead.
Start ==
    /\ pc = "start"
    /\ \E ok \in BOOLEAN : IF ok THEN Await("init", "init", None) ELSE Catch
    /\ UNCHANGED <<exitCode, envVars, parseVars, acctVars, catVars, txVars, nextId>>

\* OnData that registers the accounts of a row before it looks at its date.
OnData_registersDropped ==
    /\ pc = "parse"
    /\ rowIdx <= Len(file)
    /\ rowIdx' = rowIdx + 1
    /\ LET row == file[rowIdx]
           uid == uniqueImportedId(row, importedIdMap, FORCE_DUPLICATES)
       IN  /\ accounts' = addAccounts(accounts, cleanData(row.Account), cleanData(row.CounterAccount))
           /\ IF IsDropped(row, now)
              THEN UNCHANGED <<transactions, categories, importedIdMap>>
              ELSE /\ categories' = addCategory(categories, cleanData(row.Category), toLowerCase(row.EntryType))
                   /\ importedIdMap' = addImportedId(importedIdMap, row, uid)
                   /\ transactions' = Append(transactions, parsedTransaction(row, uid))
    /\ UNCHANGED <<pc, exitCode, apiLog, envVars, file, acctVars, catVars, txVars, nextId>>

\* The stream's "data" event for the next row.
OnData ==
    /\ pc = "parse"
    /\ rowIdx <= Len(file)
    /\ rowIdx' = rowIdx + 1
    /\ LET row == file[rowIdx]
           uid == uniqueImportedId(row, importedIdMap, FORCE_DUPLICATES)
       IN  IF IsDropped(row, now)
           THEN UNCHANGED <<transactions, accounts, categories, importedIdMap>>
           ELSE /\ accounts' = addAccounts(accounts, cleanData(row.Account), cleanData(row.CounterAccount))
                /\ categories' = addCategory(categories, cleanData(row.Category), toLowerCase(row.EntryType))
                /\ importedIdMap' = addImportedId(importedIdMap, row, uid)
                /\ transactions' = Append(transactions, parsedTransaction(row, uid))
    /\ UNCHANGED <<pc, exitCode, apiLog, envVars, file, acctVars, catVars, txVars, nextId>>

\* The stream's "end" event: loadCSV resolves, runImport sorts the accounts
\* and importAccounts calls api.getAccounts.
OnEnd ==
    /\ pc = "parse"
    /\ rowIdx > Len(file)
    /\ pc' = "getAccounts"
    /\ apiLog' = Append(apiLog, Call("getAccounts", None))
    /\ UNCHANGED <<exitCode, envVars, parseVars, acctVars, catVars, txVars, nextId>>

\* ------------------------------------------------------------- collation
\* The tokens of names in the order of localeCompare(..., "de").
Collation == <<" ", "&", "<E4>", "B", "Cash", "Depot", "Gifts", "Giro", "Other", "r">>

TokenRank(t) == IF \E i \in 1..Len(Collation) : Collation[i] = t
                THEN CHOOSE i \in 1..Len(Collation) : Collation[i] = t
                ELSE Len(Collation) + 1

RECURSIVE localeCompare(_, _)
\* a.localeCompare(b, "de"): negative, zero or positive.
localeCompare(a, b) ==
    IF a = <<>> /\ b = <<>> THEN 0
    ELSE IF a = <<>> THEN -1
    ELSE IF b = <<>> THEN 1
    ELSE IF TokenRank(Head(a)) # TokenRank(Head(b)) THEN TokenRank(Head(a)) - TokenRank(Head(b))
    ELSE localeCompare(Tail(a), Tail(b))

\* The text a sort compares: the account name itself (part_000:428) or the
\* category's name (part_000:435).
SortKey(x, byName) == IF byName THEN x.name ELSE x

RECURSIVE InsertSorted(_, _, _)
\* x put into the sorted sequence s after every element not greater than it.
InsertSorted(s, x, byName) ==
    IF s = <<>> THEN <<x>>
    ELSE IF localeCompare(SortKey(x, byName), SortKey(Head(s), byName)) < 0 THEN <<x>> \o s
    ELSE <<Head(s)>> \o InsertSorted(Tail(s), x, byName)

RECURSIVE SortBy(_, _)
\* Array.prototype.sort with a localeCompare comparator (stable).
SortBy(s, byName) ==
    IF s = <<>> THEN <<>>
    ELSE InsertSorted(SortBy(SubSeq(s, 1, Len(s) - 1), byName), s[Len(s)], byName)

sortedAccounts == SortBy(accounts, FALSE)
sortedCategories == SortBy(categories, TRUE)

RECURSIVE SeqOf(_)
\* The elements of a finite set in some fixed order.
SeqOf(S) == IF S = {} THEN <<>>
            ELSE LET x == CHOOSE y \in S : TRUE IN <<x>> \o SeqOf(S \ {x})

\* ------------------------------------------------------------ the ledger
\* The accounts the target budget may already hold (by name).
LedgerAccountNames == {<<"Giro">>}

\* The categories the target budget may already hold.
LedgerCategories == {[name |-> <<"Gifts">>, is_income |-> FALSE],
                     [name |-> <<"Gifts">>, is_income |-> TRUE]}

\* api.init settles.
InitDone ==
    /\ pc = "init"
    /\ \E ok \in BOOLEAN : IF ok THEN Await("getBudgets", "getBudgets", None) ELSE Catch
    /\ UNCHANGED <<exitCode, envVars, parseVars, acctVars, catVars, txVars, nextId>>

\* api.getBudgets settles: a non-empty array, an empty one, or a failure.
GetBudgetsDone ==
    /\ pc = "getBudgets"
    /\ \E r \in {"budgets", "empty", "fail"} :
          IF r = "budgets" THEN Await("downloadBudget", "downloadBudget", None) ELSE Catch
    /\ UNCHANGED <<exitCode, envVars, parseVars, acctVars, catVars, txVars, nextId>>

\* api.downloadBudget settles; loadCSV starts with fs.readFile.
DownloadBudgetDone ==
    /\ pc = "downloadBudget"
    /\ \E ok \in BOOLEAN : IF ok THEN Await("readFile", "readFile", None) ELSE Catch
    /\ UNCHANGED <<exitCode, envVars, parseVars, acctVars, catVars, txVars, nextId>>

\* fs.readFile calls back: with an error loadCSV rejects, else the rows are
\* streamed.  With CSV_FILE_PATH undefined fs.readFile throws in the
\* promise executor, which rejects loadCSV too.
ReadFileDone ==
    /\ pc = "readFile"
    /\ \E ok \in BOOLEAN :
          IF ok /\ "CSV_FILE_PATH" \notin missingConfig
          THEN pc' = "parse" /\ UNCHANGED apiLog ELSE Catch
    /\ UNCHANGED <<exitCode, envVars, parseVars, acctVars, catVars, txVars, nextId>>

\* --------------------------------------------------------- importAccounts
\* existing.find(x => x.name === name), as None or Some(record).
findByName(existing, name) ==
    IF \E i \in 1..Len(existing) : existing[i].name = name
    THEN Some(existing[CHOOSE i \in 1..Len(existing) :
                 /\ existing[i].name = name
                 /\ \A j \in 1..(i - 1) : existing[j].name # name])
    ELSE None

\* The listing the ledger gives for the names S, with ids from `first` on.
Listing(S, first) == [i \in 1..Cardinality(S) |-> [id |-> first + i - 1, name |-> SeqOf(S)[i]]]

\* accountsToCreate that does not look at the existing accounts.
accountsToCreate_all(existing, names) == names

\* The names importAccounts calls api.createAccount for, in call order:
\* those with no existing account of the same name.
accountsToCreate(existing, names) ==
    SelectSeq(names, LAMBDA n : ~(\E i \in 1..Len(existing) : existing[i].name = n))

\* accountIdMap after the synchronous part of importAccounts' callbacks:
\* every name with an existing account is mapped to its id.
existingAccountIds(existing, names) ==
    [n \in {m \in Range(names) : findByName(existing, m) # None} |-> findByName(existing, n)[1].id]

\* A Promise.all that resolves without waiting for its callbacks.
PromiseAllResolved_noWait(pending) == TRUE

\* Promise.all over the callbacks resolves: every one of them has returned.
PromiseAllResolved(pending) == pending = {}

Calls(op, args) == [i \in 1..Len(args) |-> Call(op, args[i])]

\* api.getAccounts settles; every callback of importAccounts runs up to its
\* await, so all createAccount calls are issued.
GetAccountsDone ==
    /\ pc = "getAccounts"
    /\ \/ /\ Catch
          /\ UNCHANGED <<acctVars, nextId>>
       \/ \E S \in SUBSET LedgerAccountNames :
             LET existing == Listing(S, nextId)
                 create == accountsToCreate(existing, sortedAccounts)
             IN  /\ existingAccounts' = existing
                 /\ nextId' = nextId + Len(existing)
                 /\ accountIdMap' = existingAccountIds(existing, sortedAccounts)
                 /\ pendingAccounts' = Range(create)
                 /\ pc' = "createAccounts"
                 /\ apiLog' = apiLog \o Calls("createAccount", create)
    /\ UNCHANGED <<exitCode, envVars, parseVars, createdAccounts, catVars, txVars>>

\* One api.createAccount call resolves with the new account's id.
CreateAccountDone ==
    /\ exitCode = None
    /\ \E name \in pendingAccounts :
          /\ createdAccounts' = createdAccounts \cup {[id |-> nextId, name |-> name]}
          /\ accountIdMap' = MapSet(accountIdMap, name, nextId)
          /\ pendingAccounts' = pendingAccounts \ {name}
    /\ nextId' = nextId + 1
    /\ UNCHANGED <<pc, exitCode, apiLog, envVars, parseVars, existingAccounts, catVars, txVars>>

\* One api.createAccount call rejects: Promise.all rejects at once, and
\* runImport, if it still awaits it, enters its catch block.
CreateAccountFail ==
    /\ exitCode = None
    /\ \E name \in pendingAccounts : pendingAccounts' = pendingAccounts \ {name}
    /\ IF pc = "createAccounts" THEN Catch ELSE UNCHANGED <<pc, apiLog>>
    /\ UNCHANGED <<exitCode, envVars, parseVars, accountIdMap, existingAccounts, createdAccounts,
                   catVars, txVars, nextId>>

\* importAccounts resolves; runImport calls api.sync.
AccountsResolved ==
    /\ pc = "createAccounts"
    /\ PromiseAllResolved(pendingAccounts)
    /\ Await("syncAccounts", "sync", None)
    /\ UNCHANGED <<exitCode, envVars, parseVars, acctVars, catVars, txVars, nextId>>

\* The api.sync after importAccounts settles; importCategories calls
\* api.getCategoryGroups.
SyncAccountsDone ==
    /\ pc = "syncAccounts"
    /\ \E ok \in BOOLEAN :
          IF ok THEN Await("getCategoryGroups", "getCategoryGroups", None) ELSE Catch
    /\ UNCHANGED <<exitCode, envVars, parseVars, acctVars, catVars, txVars, nextId>>

\* ------------------------------------------------------- importCategories
\* `${name}-${is_income ? "income" : "expense"}`
categoryKey(name, is_income) == name \o <<"-", IF is_income THEN "income" ELSE "expense">>

\* existingCategories.find(cat => cat.name === name && cat.is_income === is_income)
findCategory(existing, c) ==
    IF \E i \in 1..Len(existing) : existing[i].name = c.name /\ existing[i].is_income = c.is_income
    THEN Some(existing[CHOOSE i \in 1..Len(existing) :
                 /\ existing[i].name = c.name /\ existing[i].is_income = c.is_income
                 /\ \A j \in 1..(i - 1) :
                       ~(existing[j].name = c.name /\ existing[j].is_income = c.is_income)])
    ELSE None

\* The listing the ledger gives for the categories S, with ids from `first` on.
CategoryListing(S, first) ==
    [i \in 1..Cardinality(S) |->
        [id |-> first + i - 1, name |-> SeqOf(S)[i].name, is_income |-> SeqOf(S)[i].is_income]]

\* The categories with no existing category of the same name and flag.
categoriesMissing(existing, cats) == SelectSeq(cats, LAMBDA c : findCategory(existing, c) = None)

\* Reading incomeGroup.id throws when the budget has no income group.
groupIdThrows(c, income) == c.is_income /\ income = None

\* categoryIdMap after the synchronous part of importCategories' callbacks.
existingCategoryIds(existing, cats) ==
    [k \in {categoryKey(c.name, c.is_income) : c \in {d \in Range(cats) : findCategory(existing, d) # None}} |->
        LET c == CHOOSE d \in Range(cats) :
                    findCategory(existing, d) # None /\ categoryKey(d.name, d.is_income) = k
        IN  findCategory(existing, c)[1].id]

\* api.getCategoryGroups settles: the "Imported" group and the income group
\* may each exist or not.
GetCategoryGroupsDone ==
    /\ pc = "getCategoryGroups"
    /\ \/ /\ Catch
          /\ UNCHANGED <<importedGroup, incomeGroup, nextId>>
       \/ \E hasImported \in BOOLEAN, hasIncome \in BOOLEAN :
             /\ importedGroup' = IF hasImported THEN Some(nextId) ELSE None
             /\ incomeGroup' = IF hasIncome THEN Some(nextId + 1) ELSE None
             /\ nextId' = nextId + 2
             /\ IF hasImported THEN Await("getCategories", "getCategories", None)
                ELSE Await("createCategoryGroup", "createCategoryGroup", <<"Imported">>)
    /\ UNCHANGED <<exitCode, envVars, parseVars, acctVars, categoryIdMap, existingCategories,
                   pendingCategories, createdCategories, txVars>>

\* api.createCategoryGroup settles.
CreateCategoryGroupDone ==
    /\ pc = "createCategoryGroup"
    /\ \/ /\ Catch
          /\ UNCHANGED <<importedGroup, nextId>>
       \/ /\ importedGroup' = Some(nextId)
          /\ nextId' = nextId + 1
          /\ Await("getCategories", "getCategories", None)
    /\ UNCHANGED <<exitCode, envVars, parseVars, acctVars, categoryIdMap, existingCategories,
                   incomeGroup, pendingCategories, createdCategories, txVars>>

\* api.getCategories settles; every callback of importCategories runs up
\* to its await (or throws reading incomeGroup.id), so all createCategory
\* calls are issued; a callback that threw rejects Promise.all, and the
\* rejection reaches runImport some microtask turns later.
GetCategoriesDone ==
    /\ pc = "getCategories"
    /\ \/ /\ Catch
          /\ UNCHANGED <<categoryIdMap, existingCategories, pendingCategories, nextId>>
       \/ \E S \in SUBSET LedgerCategories :
             LET existing == CategoryListing(S, nextId)
                 missing == categoriesMissing(existing, sortedCategories)
                 create == SelectSeq(missing, LAMBDA c : ~groupIdThrows(c, incomeGroup))
                 issued == apiLog \o Calls("createCategory", create)
             IN  /\ existingCategories' = existing
                 /\ nextId' = nextId + Len(existing)
                 /\ categoryIdMap' = existingCategoryIds(existing, sortedCategories)
                 /\ pendingCategories' = Range(create)
                 /\ apiLog' = issued
                 /\ pc' = IF create # missing THEN "categoriesThrown" ELSE "createCategories"
    /\ UNCHANGED <<exitCode, envVars, parseVars, acctVars, importedGroup, incomeGroup,
                   createdCategories, txVars>>

\* The rejection of a callback that threw reaches runImport, which enters
\* its catch block; createCategory calls that had settled by then have
\* run their continuations first.
CategoriesRejected ==
    /\ pc = "categoriesThrown"
    /\ Catch
    /\ UNCHANGED <<exitCode, envVars, parseVars, acctVars, catVars, txVars, nextId>>

\* One api.createCategory call resolves with the new category's id.
CreateCategoryDone ==
    /\ exitCode = None
    /\ \E c \in pendingCategories :
          /\ createdCategories' = createdCategories \cup
                 {[id |-> nextId, name |-> c.name, is_income |-> c.is_income]}
          /\ categoryIdMap' = MapSet(categoryIdMap, categoryKey(c.name, c.is_income), nextId)
          /\ pendingCategories' = pendingCategories \ {c}
    /\ nextId' = nextId + 1
    /\ UNCHANGED <<pc, exitCode, apiLog, envVars, parseVars, acctVars, existingCategories,
                   importedGroup, incomeGroup, txVars>>

\* One api.createCategory call rejects.
CreateCategoryFail ==
    /\ exitCode = None
    /\ \E c \in pendingCategories : pendingCategories' = pendingCategories \ {c}
    /\ IF pc = "createCategories" THEN Catch ELSE UNCHANGED <<pc, apiLog>>
    /\ UNCHANGED <<exitCode, envVars, parseVars, acctVars, categoryIdMap, existingCategories,
                   importedGroup, incomeGroup, createdCategories, txVars, nextId>>

\* importCategories resolves; runImport calls api.sync.
CategoriesResolved ==
    /\ pc = "createCategories"
    /\ PromiseAllResolved(pendingCategories)
    /\ Await("syncCategories", "sync", None)
    /\ UNCHANGED <<exitCode, envVars, parseVars, acctVars, catVars, txVars, nextId>>

\* The api.sync after importCategories settles; importTransactions calls
\* api.getPayees.
SyncCategoriesDone ==
    /\ pc = "syncCategories"
    /\ \E ok \in BOOLEAN : IF ok THEN Await("getPayees", "getPayees", None) ELSE Catch
    /\ UNCHANGED <<exitCode, envVars, parseVars, acctVars, catVars, txVars, nextId>>

\* ----------------------------------------------------- importTransactions
\* let transactionData = {...}: the posting of a transaction before the
\* transfer handling.
transactionData(t, categoryId, transactionId) ==
    [id |-> transactionId, date |-> t.date, amount |-> t.amount, category |-> categoryId,
     payee_name |-> Some(t.payee_name), payee |-> None, notes |-> t.notes,
     imported_id |-> t.imported_id, cleared |-> MARK_CLEARED, transfer_id |-> None]

\* transferData that leaves the amount as it is.
transferData_noNegate(data, transferPayeeId, mirroredTransactionId) ==
    [data EXCEPT !.payee = Some(transferPayeeId), !.payee_name = None, !.category = None,
                 !.transfer_id = Some(mirroredTransactionId)]

\* transactionData after the assignments of the transfer branch.
transferData(data, transferPayeeId, mirroredTransactionId) ==
    [data EXCEPT !.payee = Some(transferPayeeId), !.payee_name = None, !.category = None,
                 !.amount = data.amount * (-1), !.transfer_id = Some(mirroredTransactionId)]

\* mirroredTransaction with transfer_id set to its own id.
mirroredTransaction_selfLink(t, mirroredTransactionId, transactionId, sourcePayee) ==
    [id |-> mirroredTransactionId, date |-> t.date, amount |-> t.amount, category |-> None,
     payee_name |-> None, payee |-> sourcePayee, notes |-> t.notes,
     imported_id |-> t.imported_id, cleared |-> MARK_CLEARED,
     transfer_id |-> Some(mirroredTransactionId)]

\* mirroredTransaction = {...}: the posting on the counter account.
mirroredTransaction(t, mirroredTransactionId, transactionId, sourcePayee) ==
    [id |-> mirroredTransactionId, date |-> t.date, amount |-> t.amount, category |-> None,
     payee_name |-> None, payee |-> sourcePayee, notes |-> t.notes,
     imported_id |-> t.imported_id, cleared |-> MARK_CLEARED, transfer_id |-> Some(transactionId)]

\* The transaction after "convert the transaction to an expense".
convertedToExpense(t) == [t EXCEPT !.type = "expense", !.amount = t.amount * (-1)]

\* resolvedTransfer without the "continue" of a missing transfer payee: the
\* posting is pushed on the source account as it is.
resolvedTransfer_noSkip(t, data, acctId, counterAcctId, payees, uuid) ==
    LET transferPayeeId == MapGet(payees, counterAcctId)
    IN  IF transferPayeeId = None
        THEN [out |-> <<[acctId |-> acctId, posting |-> data]>>,
              ensure |-> <<acctId>>, tx |-> t, uuids |-> 1]
        ELSE [out |-> <<[acctId |-> acctId,
                        posting |-> transferData(data, transferPayeeId[1], uuid + 1)],
                       [acctId |-> counterAcctId,
                        posting |-> mirroredTransaction(t, uuid + 1, uuid, MapGet(payees, acctId))]>>,
              ensure |-> <<acctId, counterAcctId>>, tx |-> t, uuids |-> 2]

\* The branch of a transfer whose counter account is mapped: nothing when
\* the counter account has no transfer payee ("continue"), else the posting
\* on the source account and the mirrored one on the counter account.
resolvedTransfer(t, data, acctId, counterAcctId, payees, uuid) ==
    LET transferPayeeId == MapGet(payees, counterAcctId)
    IN  IF transferPayeeId = None
        THEN [out |-> <<>>, ensure |-> <<acctId>>, tx |-> t, uuids |-> 1]
        ELSE [out |-> <<[acctId |-> acctId,
                        posting |-> transferData(data, transferPayeeId[1], uuid + 1)],
                       [acctId |-> counterAcctId,
                        posting |-> mirroredTransaction(t, uuid + 1, uuid, MapGet(payees, acctId))]>>,
              ensure |-> <<acctId, counterAcctId>>, tx |-> t, uuids |-> 2]

\* The branch of a transfer whose counter account is not mapped: the
\* transaction object is converted, transactionData is pushed as it is.
unresolvedTransfer(t, data, acctId) ==
    [out |-> <<[acctId |-> acctId, posting |-> data]>>,
     ensure |-> <<acctId>>, tx |-> convertedToExpense(t), uuids |-> 1]

\* One iteration of the loop over the transactions, for transaction t with
\* uuid the next uuidv4(): the postings pushed (out, with the account id
\* each is pushed under), the account ids whose list is created if missing
\* (ensure), the transaction afterwards (tx) and the uuids drawn.
reconcile(t, acctMap, catMap, payees, uuid) ==
    LET acctId == MapGet(acctMap, t.acctName)
        categoryId == MapGet(catMap, t.category \o <<"-", t.type>>)
        data == transactionData(t, categoryId, uuid)
        counterAcctId == MapGet(acctMap, t.payee_name)
    IN  IF acctId = None
        THEN [out |-> <<>>, ensure |-> <<>>, tx |-> t, uuids |-> 1]
        ELSE IF t.type # "transfer"
        THEN [out |-> <<[acctId |-> acctId[1], posting |-> data]>>,
              ensure |-> <<acctId[1]>>, tx |-> t, uuids |-> 1]
        ELSE IF counterAcctId = None
        THEN unresolvedTransfer(t, data, acctId[1])
        ELSE resolvedTransfer(t, data, acctId[1], counterAcctId[1], payees, uuid)

\* transactionsByAccount (a Map in insertion order: a sequence of entries)
\* with an empty list for id if it has none.
tbaEnsure(tba, id) ==
    IF \E i \in 1..Len(tba) : tba[i].acctId = id THEN tba
    ELSE Append(tba, [acctId |-> id, list |-> <<>>])

\* transactionsByAccount.get(id).push(p)
tbaPush(tba, id, p) ==
    [i \in 1..Len(tba) |-> IF tba[i].acctId = id
                           THEN [tba[i] EXCEPT !.list = Append(tba[i].list, p)] ELSE tba[i]]

RECURSIVE tbaEnsureAll(_, _)
tbaEnsureAll(tba, ids) ==
    IF ids = <<>> THEN tba ELSE tbaEnsureAll(tbaEnsure(tba, Head(ids)), Tail(ids))

\* tbaPushAll that pushes the first posting only (no mirrored posting).
tbaPushAll_firstOnly(tba, out) ==
    IF out = <<>> THEN tba ELSE tbaPush(tba, Head(out).acctId, Head(out).posting)

RECURSIVE tbaPushAll(_, _)
tbaPushAll(tba, out) ==
    IF out = <<>> THEN tba
    ELSE tbaPushAll(tbaPush(tba, Head(out).acctId, Head(out).posting), Tail(out))

\* api.getPayees settles: any of the mapped accounts may have a transfer
\* payee; payeesByAccount is built and the loop over the transactions starts.
GetPayeesDone ==
    /\ pc = "getPayees"
    /\ \/ /\ Catch
          /\ UNCHANGED <<payeesByAccount, nextId>>
       \/ \E P \in SUBSET {accountIdMap[n] : n \in DOMAIN accountIdMap} :
             /\ payeesByAccount' = [a \in P |-> nextId + a]
             /\ nextId' = nextId + nextId
             /\ pc' = "prepare"
             /\ UNCHANGED apiLog
    /\ UNCHANGED <<exitCode, envVars, parseVars, acctVars, catVars, txIdx,
                   transactionsByAccount, acctPos, batchStart, emitted>>

\* One iteration of "for (const transaction of transactions)".
PrepareStep ==
    /\ pc = "prepare"
    /\ txIdx <= Len(transactions)
    /\ LET t == transactions[txIdx]
           r == reconcile(t, accountIdMap, categoryIdMap, payeesByAccount, nextId)
       IN  /\ transactionsByAccount' = tbaPushAll(tbaEnsureAll(transactionsByAccount, r.ensure), r.out)
           /\ transactions' = [transactions EXCEPT ![txIdx] = r.tx]
           /\ nextId' = nextId + r.uuids
           /\ emitted' = Append(emitted, [tx |-> t, out |-> r.out, after |-> r.tx])
    /\ txIdx' = txIdx + 1
    /\ UNCHANGED <<pc, exitCode, apiLog, envVars, file, rowIdx, accounts, categories,
                   importedIdMap, acctVars, catVars, payeesByAccount, acctPos, batchStart>>

\* The loop over the transactions ends; the delivery loops start.
PrepareEnd ==
    /\ pc = "prepare"
    /\ txIdx > Len(transactions)
    /\ pc' = "deliver"
    /\ UNCHANGED <<exitCode, apiLog, envVars, parseVars, acctVars, catVars, txVars, nextId>>

RECURSIVE nextBatch(_, _, _)
\* The next (entry, i) of the delivery loops with i < length, from (pos, i) on.
nextBatch(tba, pos, i) ==
    IF pos > Len(tba) THEN None
    ELSE IF i < Len(tba[pos].list) THEN Some(<<pos, i>>)
    ELSE nextBatch(tba, pos + 1, 0)

Min(a, b) == IF a < b THEN a ELSE b

\* accountTransactions.slice(i, i + 1000)
batchSlice(list, i) == SubSeq(list, i + 1, Min(i + BatchSize, Len(list)))

\* The collaborator calls the delivery loop makes for one batch, in order.
batchCalls(acctId, batch) == <<Call("sync", None)>>

\* The delivery loops run to their next await: the batch's calls are issued
\* (the last awaited), or the loops end, importTransactions returns and
\* runImport calls api.sync.
DeliverBatch ==
    /\ pc = "deliver"
    /\ LET nb == nextBatch(transactionsByAccount, acctPos, batchStart)
       IN  IF nb = None
           THEN /\ Await("syncFinal", "sync", None)
                /\ UNCHANGED <<acctPos, batchStart>>
           ELSE /\ acctPos' = nb[1][1]
                /\ batchStart' = nb[1][2]
                /\ pc' = "syncBatch"
                /\ apiLog' = apiLog \o batchCalls(transactionsByAccount[nb[1][1]].acctId,
                                     batchSlice(transactionsByAccount[nb[1][1]].list, nb[1][2]))
    /\ UNCHANGED <<exitCode, envVars, parseVars, acctVars, catVars, payeesByAccount, txIdx,
                   transactionsByAccount, emitted, nextId>>

\* The api.sync of a batch settles.
SyncBatchDone ==
    /\ pc = "syncBatch"
    /\ \/ /\ Catch
          /\ UNCHANGED batchStart
       \/ /\ batchStart' = batchStart + BatchSize
          /\ pc' = "deliver"
          /\ UNCHANGED apiLog
    /\ UNCHANGED <<exitCode, envVars, parseVars, acctVars, catVars, payeesByAccount, txIdx,
                   transactionsByAccount, acctPos, emitted, nextId>>

\* --------------------------------------------------------- end of the run
\* The final api.sync settles; runImport calls api.shutdown.
SyncFinalDone ==
    /\ pc = "syncFinal"
    /\ \E ok \in BOOLEAN : IF ok THEN Await("shutdown", "shutdown", None) ELSE Catch
    /\ UNCHANGED <<exitCode, envVars, parseVars, acctVars, catVars, txVars, nextId>>

\* The api.shutdown of the try block settles: runImport reports and
\* returns, or enters its catch block.
ShutdownDone ==
    /\ pc = "shutdown"
    /\ \E ok \in BOOLEAN : IF ok THEN pc' = "done" /\ UNCHANGED apiLog ELSE Catch
    /\ UNCHANGED <<exitCode, envVars, parseVars, acctVars, catVars, txVars, nextId>>

\* The api.shutdown of the catch block settles: process.exit(1), or the
\* rejection leaves runImport and is printed by .catch(console.error).
ShutdownCatchDone ==
    /\ pc = "shutdownCatch"
    /\ \E ok \in BOOLEAN :
          IF ok THEN pc' = "exited" /\ exitCode' = Some(1)
          ELSE pc' = "rejected" /\ UNCHANGED exitCode
    /\ UNCHANGED <<apiLog, envVars, parseVars, acctVars, catVars, txVars, nextId>>

\* Nothing is left to run: the process ends with exit code 0.
ProcessEnd ==
    /\ pc \in {"done", "rejected"}
    /\ exitCode = None
    /\ pendingAccounts = {} /\ pendingCategories = {}
    /\ exitCode' = Some(0)
    /\ UNCHANGED <<pc, apiLog, envVars, parseVars, acctVars, catVars, txVars, nextId>>

Next ==
    \/ Start \/ InitDone \/ GetBudgetsDone \/ DownloadBudgetDone \/ ReadFileDone
    \/ OnData \/ OnEnd
    \/ GetAccountsDone \/ CreateAccountDone \/ CreateAccountFail \/ AccountsResolved
    \/ SyncAccountsDone
    \/ GetCategoryGroupsDone \/ CreateCategoryGroupDone \/ GetCategoriesDone
    \/ CategoriesRejected
    \/ CreateCategoryDone \/ CreateCategoryFail \/ CategoriesResolved \/ SyncCategoriesDone
    \/ GetPayeesDone \/ PrepareStep \/ PrepareEnd \/ DeliverBatch \/ SyncBatchDone
    \/ SyncFinalDone \/ ShutdownDone \/ ShutdownCatchDone \/ ProcessEnd

Spec == Init /\ [][Next]_vars

\* loadCSV alone: it is called (fs.readFile is issued) and runs to the
\* point where it resolves or rejects.
InitLoadCSV == InitAt(SeqsUpTo(ParseRows, MaxParseRows), "readFile", <<Call("readFile", None)>>)

NextLoadCSV == ReadFileDone \/ OnData \/ OnEnd

SpecLoadCSV == InitLoadCSV /\ [][NextLoadCSV]_vars

\* A whole run on the end-to-end fixture.
InitFixture == InitAt({Fixture}, "start", <<>>)

SpecFixture == InitFixture /\ [][Next]_vars

\* loadCSV alone on files of rows that differ in their Value field.
InitParseValue ==
    InitAt(SeqsUpTo({ValueRow(v) : v \in Values}, MaxValueRows), "readFile",
           <<Call("readFile", None)>>)

SpecParseValue == InitParseValue /\ [][NextLoadCSV]_vars

\* A whole run with any of the required configuration values missing.
InitConfig == InitWith(SeqsUpTo(Rows, MaxConfigRows), "start", <<>>, SUBSET RequiredConfig)

SpecConfig == InitConfig /\ [][Next]_vars

\* ----------------------------------------------------------------- claims
\* The collaborator calls of the log for operation op.
CallsOf(op) == SelectSeq(apiLog, LAMBDA c : c[1] = op)

\* A handled transaction is a transfer whose source account is mapped.
IsTransferOnMapped(t) == t.type = "transfer" /\ MapHas(accountIdMap, t.acctName)

\* A handled transfer whose counter account (the name in payee_name) is
\* mapped too.
CounterMapped(t) == IsTransferOnMapped(t) /\ MapHas(accountIdMap, t.payee_name)

\* A transfer on mapped accounts whose counter account has a transfer payee.
FullyResolvable(t) == CounterMapped(t) /\ MapHas(payeesByAccount, accountIdMap[t.payee_name])

\* C1: a transfer whose source and counter account are both mapped and
\* whose counter account has a transfer payee pushes exactly two postings,
\* whose amounts sum to zero and whose transfer_id is the other one's id.
C1_TransferPair ==
    \A i \in 1..Len(emitted) :
        FullyResolvable(emitted[i].tx) =>
            LET out == emitted[i].out
            IN  /\ Len(out) = 2
                /\ out[1].posting.amount + out[2].posting.amount = 0
                /\ out[1].posting.id # out[2].posting.id
                /\ out[1].posting.transfer_id = Some(out[2].posting.id)
                /\ out[2].posting.transfer_id = Some(out[1].posting.id)

\* A fully resolvable transfer of a non-zero amount has been handled.
C1_Witness ==
    \E i \in 1..Len(emitted) :
        /\ FullyResolvable(emitted[i].tx)
        /\ emitted[i].tx.amount # 0
        /\ Len(emitted[i].out) = 2

\* C2 (as claimed): a transfer whose source account is mapped and whose
\* counter account is not pushes exactly one posting, on the source
\* account, with the negated amount of the parsed transaction and no
\* transfer_id.
C2_DowngradeNegates ==
    \A i \in 1..Len(emitted) :
        LET t == emitted[i].tx
            out == emitted[i].out
        IN  (IsTransferOnMapped(t) /\ ~MapHas(accountIdMap, t.payee_name)) =>
                /\ Len(out) = 1
                /\ out[1].acctId = accountIdMap[t.acctName]
                /\ out[1].posting.amount = 0 - t.amount
                /\ out[1].posting.transfer_id = None

\* C3: a transfer whose counter account is mapped but has no transfer payee
\* pushes no posting, and the loop goes on: it is at the next transaction
\* or has handled them all.
C3_NoPayeeSkips ==
    \A i \in 1..Len(emitted) :
        (CounterMapped(emitted[i].tx) /\ ~FullyResolvable(emitted[i].tx)) =>
            /\ emitted[i].out = <<>>
            /\ \/ pc = "prepare" /\ txIdx = Len(emitted) + 1
               \/ Len(emitted) = Len(transactions)
            /\ \A k \in 1..Len(transactionsByAccount) :
                  \A n \in 1..Len(transactionsByAccount[k].list) :
                      transactionsByAccount[k].list[n].imported_id # emitted[i].tx.imported_id
                      \/ \E j \in 1..Len(emitted) :
                            j # i /\ emitted[j].tx.imported_id = emitted[i].tx.imported_id

\* A transfer without transfer payee was skipped and a later transaction
\* pushed a posting.
C3_Witness ==
    \E i \in 1..Len(emitted) :
        /\ CounterMapped(emitted[i].tx) /\ ~FullyResolvable(emitted[i].tx)
        /\ \E j \in (i + 1)..Len(emitted) : emitted[j].out # <<>>

\* The rows of the file handled so far that the "data" handler accepted.
Accepted == SelectSeq(SubSeq(file, 1, rowIdx - 1), LAMBDA r : ~IsDropped(r, now))

\* The number of rows equal to h among the first n accepted rows.
Earlier(h, n) == Cardinality({j \in 1..n : Accepted[j] = h})

\* C4: the k-th accepted row with fingerprint h (k = 0, 1, ...) carries h
\* alone when FORCE_DUPLICATES is off or k = 0 and h with suffix k
\* otherwise; the index lists under h exactly the accepted rows equal to h,
\* with the same identities; with FORCE_DUPLICATES on all identities differ.
C4_ImportIdentity ==
    /\ Len(transactions) = Len(Accepted)
    /\ \A i \in 1..Len(transactions) :
          LET h == Accepted[i]
              k == Earlier(h, i - 1)
          IN  /\ transactions[i].imported_id =
                    IF FORCE_DUPLICATES /\ k > 0 THEN <<h, k>> ELSE <<h>>
              /\ MapHas(importedIdMap, h)
              /\ Len(importedIdMap[h]) = Earlier(h, Len(Accepted))
              /\ importedIdMap[h][k + 1].imported_id = transactions[i].imported_id
              /\ importedIdMap[h][k + 1].row = h
    /\ DOMAIN importedIdMap = Range(Accepted)
    /\ FORCE_DUPLICATES =>
          \A i, j \in 1..Len(transactions) :
              i # j => transactions[i].imported_id # transactions[j].imported_id

\* Three identical rows were accepted with FORCE_DUPLICATES on.
C4_Witness ==
    /\ FORCE_DUPLICATES
    /\ \E i \in 1..Len(transactions) :
          /\ Len(transactions[i].imported_id) = 2
          /\ transactions[i].imported_id[2] = 2
          /\ Len(importedIdMap[transactions[i].imported_id[1]]) = 3

\* The process ended or was left without a continuation after a failure.
Failed == pc \in {"shutdownCatch", "rejected", "exited"}

\* C5 (as claimed): after a failed collaborator call api.shutdown has been
\* called, and a process that ended has exit code 0 exactly when no call
\* failed.
C5_FailFastExit ==
    /\ Failed => CallsOf("shutdown") # <<>>
    /\ exitCode # None => (exitCode = Some(0) <=> ~Failed)

\* importTransactions has been called (it starts with api.getPayees).
ReconcileStarted == CallsOf("getPayees") # <<>>

\* C6: once importTransactions has been called no createAccount or
\* createCategory call is in flight, every discovered account name and
\* category has its id in accountIdMap / categoryIdMap, and from then on
\* neither map changes.
C6_MapsCompleteBeforeReconcile ==
    /\ [](ReconcileStarted =>
            /\ pendingAccounts = {} /\ pendingCategories = {}
            /\ \A i \in 1..Len(accounts) : MapHas(accountIdMap, accounts[i])
            /\ \A i \in 1..Len(categories) :
                  MapHas(categoryIdMap, categories[i].name \o
                      <<"-", IF categories[i].is_income THEN "income" ELSE "expense">>))
    /\ [][ReconcileStarted =>
            accountIdMap' = accountIdMap /\ categoryIdMap' = categoryIdMap]_vars

\* Reconciliation runs on maps that hold a created account and a created
\* category.
C6_Witness ==
    /\ pc = "prepare"
    /\ createdAccounts # {} /\ createdCategories # {}
    /\ Len(accounts) >= 2

\* The postings handed to api.importTransactions for account id, in call
\* order.
RECURSIVE Delivered(_, _)
Delivered(log, id) ==
    IF log = <<>> THEN <<>>
    ELSE (IF Head(log)[1] = "importTransactions" /\ Head(log)[2][1] = id
          THEN Head(log)[2][2] ELSE <<>>) \o Delivered(Tail(log), id)

\* C7 (as claimed): when the delivery loops have ended, the batches handed
\* to api.importTransactions for each account id hold at most 1000
\* postings each and make up, in order, that account's posting list.
C7_EveryPostingDelivered ==
    pc \in {"syncFinal", "shutdown", "done"} =>
        /\ \A k \in 1..Len(transactionsByAccount) :
              Delivered(CallsOf("importTransactions"), transactionsByAccount[k].acctId)
                  = transactionsByAccount[k].list
        /\ \A n \in 1..Len(CallsOf("importTransactions")) :
              Len(CallsOf("importTransactions")[n][2][2]) <= BatchSize

\* importCategories has resolved and nothing has failed since.
CategoriesImported ==
    pc \in {"syncCategories", "getPayees", "prepare", "deliver", "syncBatch", "syncFinal",
            "shutdown", "done"}

\* importAccounts has resolved and nothing has failed since.
AccountsImported ==
    \/ pc \in {"syncAccounts", "getCategoryGroups", "createCategoryGroup", "getCategories",
               "createCategories"}
    \/ CategoriesImported

SameCategory(a, b) == a.name = b.name /\ a.is_income = b.is_income

KeyOf(c) == c.name \o <<"-", IF c.is_income THEN "income" ELSE "expense">>

\* C8 (as claimed): after importCategories every discovered (name, flag)
\* pair is mapped: to the id of an existing category of that name and flag,
\* with no createCategory call for the pair, or else to the id of the one
\* category created by the one createCategory call for the pair.  The
\* posting of a transaction that is an expense or an income when it is
\* pushed has category null exactly when the category name is empty, and
\* else the id of its (name, kind) pair; the postings of an expense and of
\* an income transaction with the same category name have different
\* category ids.
C8_CategoryIdentity ==
    /\ CategoriesImported =>
          \A n \in 1..Len(categories) :
              LET c == categories[n]
                  ex == {e \in Range(existingCategories) : SameCategory(e, c)}
                  made == {e \in createdCategories : SameCategory(e, c)}
                  calls == SelectSeq(CallsOf("createCategory"), LAMBDA x : x[2] = c)
              IN  /\ MapHas(categoryIdMap, KeyOf(c))
                  /\ IF ex # {}
                     THEN categoryIdMap[KeyOf(c)] \in {e.id : e \in ex} /\ Len(calls) = 0
                     ELSE /\ Len(calls) = 1
                          /\ Cardinality(made) = 1
                          /\ \A e \in made : categoryIdMap[KeyOf(c)] = e.id
    /\ \A i \in 1..Len(emitted) :
          LET t == emitted[i].after
              out == emitted[i].out
              pair == [name |-> t.category, is_income |-> t.type = "income"]
          IN  (t.type \in {"expense", "income"} /\ out # <<>>) =>
                  /\ out[1].posting.category = None <=> t.category = <<>>
                  /\ t.category # <<>> =>
                        /\ MapHas(categoryIdMap, KeyOf(pair))
                        /\ out[1].posting.category = Some(categoryIdMap[KeyOf(pair)])
    /\ \A i, j \in 1..Len(emitted) :
          (/\ emitted[i].after.type = "expense" /\ emitted[j].after.type = "income"
           /\ emitted[i].after.category = emitted[j].after.category
           /\ emitted[i].after.category # <<>>
           /\ emitted[i].out # <<>> /\ emitted[j].out # <<>>) =>
              emitted[i].out[1].posting.category # emitted[j].out[1].posting.category

\* The position of the createAccount call for name in the log (0: none).
CreateCallAt(name) ==
    IF \E n \in 1..Len(apiLog) : apiLog[n] = Call("createAccount", name)
    THEN CHOOSE n \in 1..Len(apiLog) : apiLog[n] = Call("createAccount", name)
    ELSE 0

\* C9: after importAccounts every transaction with a non-empty account
\* name has that name in accountIdMap: with the id of the existing account
\* of that name and no createAccount call for it, or else with the id of
\* the one account created by the one createAccount call for that name;
\* different names have different ids.
C9_AccountMapped ==
    AccountsImported =>
        /\ \A i \in 1..Len(transactions) :
              LET name == transactions[i].acctName
                  ex == {e \in Range(existingAccounts) : e.name = name}
                  made == {e \in createdAccounts : e.name = name}
                  calls == SelectSeq(CallsOf("createAccount"), LAMBDA x : x[2] = name)
              IN  name # <<>> =>
                      /\ MapHas(accountIdMap, name)
                      /\ IF ex # {}
                         THEN accountIdMap[name] \in {e.id : e \in ex} /\ Len(calls) = 0
                         ELSE /\ Len(calls) = 1
                              /\ Cardinality(made) = 1
                              /\ \A e \in made : accountIdMap[name] = e.id
        /\ \A n, m \in DOMAIN accountIdMap : n # m => accountIdMap[n] # accountIdMap[m]

\* Two accounts were created and the call issued first completed last.
C9_Witness ==
    /\ pc = "syncAccounts"
    /\ \E a, b \in createdAccounts :
          /\ a.id < b.id
          /\ CreateCallAt(a.name) > CreateCallAt(b.name)
    /\ \E i \in 1..Len(transactions) : transactions[i].acctName # <<>>

\* The row's date is written as a day that exists and is not after the
\* day of the clock.
DateOk(row) ==
    /\ row.Date # None
    /\ IsValidDate(row.Date)
    /\ DayNumber(row.Date) <= DayNumber(now)

\* C10: the parsed transactions are, in order, those of the rows handled
\* so far whose date is valid and not in the future (a row with another
\* date gives none, a row with such a date always one), and loadCSV
\* resolves only when every row of the file has been handled.
C10_DateDrop ==
    LET kept == SelectSeq(SubSeq(file, 1, rowIdx - 1), DateOk)
    IN  /\ Len(transactions) = Len(kept)
        /\ \A i \in 1..Len(transactions) : transactions[i].imported_id[1] = kept[i]
        /\ pc = "getAccounts" => rowIdx = Len(file) + 1

\* loadCSV resolved on a file where a row of today's date follows a row
\* with an invalid date and a row with a future date.
C10_Witness ==
    /\ pc = "getAccounts"
    /\ \E i, j, k \in 1..Len(file) :
          /\ i < k /\ j < k
          /\ file[i].Date # None /\ ~IsValidDate(file[i].Date)
          /\ file[j].Date # None /\ IsValidDate(file[j].Date)
          /\ DayNumber(file[j].Date) > DayNumber(now)
          /\ file[k].Date = now
    /\ Len(transactions) >= 1

\* ------------------------------------------------------------------- C11
RECURSIVE TotalPostings(_)
\* The number of postings in all lists of a transactionsByAccount.
TotalPostings(tba) == IF tba = <<>> THEN 0 ELSE Len(Head(tba).list) + TotalPostings(Tail(tba))

\* The loop over the transactions has handled every parsed transaction.
ReconcileFinished == transactions # <<>> /\ txIdx > Len(transactions)

\* Every transfer of the run is fully resolvable.
TransfersResolvable ==
    \A i \in 1..Len(emitted) : emitted[i].tx.type = "transfer" => FullyResolvable(emitted[i].tx)

\* The postings of the list kept for account id.
PostingsOf(id) ==
    IF \E k \in 1..Len(transactionsByAccount) : transactionsByAccount[k].acctId = id
    THEN (CHOOSE e \in Range(transactionsByAccount) : e.acctId = id).list
    ELSE <<>>

\* The future-dated row of the fixture has no posting.
FutureRowAbsent ==
    \A k \in 1..Len(transactionsByAccount) :
        \A p \in Range(transactionsByAccount[k].list) : p.imported_id[1] # RowFuture

\* Every posting pushed for a transaction is in the list of the account id
\* it was pushed under, and the first one is under the row's account id.
GroupedByAccount ==
    \A i \in 1..Len(emitted) :
        /\ \A o \in Range(emitted[i].out) : o.posting \in Range(PostingsOf(o.acctId))
        /\ emitted[i].out # <<>> => emitted[i].out[1].acctId = accountIdMap[emitted[i].tx.acctName]

\* C11 as stated: the fixture (3 expense rows, 1 income row, 1 fully
\* resolvable transfer row, 1 future-dated row) yields exactly 5 postings
\* after reconciliation, each under its row's account id.
C11_FixtureFivePostings ==
    (file = Fixture /\ ReconcileFinished /\ TransfersResolvable) =>
        /\ TotalPostings(transactionsByAccount) = 5
        /\ FutureRowAbsent
        /\ \A i \in 1..Len(emitted) :
              \A o \in Range(emitted[i].out) : o.acctId = accountIdMap[emitted[i].tx.acctName]

\* C11, amended: the fixture yields exactly 6 postings after
\* reconciliation: one for each expense row and the income row, under the
\* row's account id, and two for the transfer row, the first under the
\* source account id and the mirrored one under the counter account id; the
\* future-dated row contributes none.
C11_FixtureSixPostings ==
    (file = Fixture /\ ReconcileFinished /\ TransfersResolvable) =>
        /\ TotalPostings(transactionsByAccount) = 6
        /\ FutureRowAbsent
        /\ GroupedByAccount
        /\ \A i \in 1..Len(emitted) :
              /\ Len(emitted[i].out) = (IF emitted[i].tx.type = "transfer" THEN 2 ELSE 1)
              /\ emitted[i].tx.type = "transfer" =>
                    emitted[i].out[2].acctId = accountIdMap[emitted[i].tx.payee_name]

\* The fixture was reconciled with its transfer fully resolvable.
C11_Witness ==
    /\ file = Fixture /\ ReconcileFinished /\ TransfersResolvable
    /\ Len(transactions) = 5
    /\ TotalPostings(transactionsByAccount) = 6
    /\ Len(PostingsOf(accountIdMap[<<"Cash">>])) = 2


\* ------------------------------------------------------------------- C12
\* fs.readFile called back with an error: the catch block's shutdown is the
\* call issued right after the file read.
ReadFailed ==
    \E n \in 1..(Len(apiLog) - 1) :
        apiLog[n] = Call("readFile", None) /\ apiLog[n + 1] = Call("shutdown", None)

\* No row was parsed, no account or category was looked up or created, no
\* transaction was reconciled and no batch was delivered.
NoComponentRan ==
    /\ rowIdx = 1 /\ transactions = <<>> /\ accounts = <<>> /\ categories = <<>>
    /\ importedIdMap = <<>>
    /\ accountIdMap = <<>> /\ categoryIdMap = <<>>
    /\ createdAccounts = {} /\ createdCategories = {}
    /\ emitted = <<>> /\ transactionsByAccount = <<>>
    /\ \A n \in 1..Len(apiLog) :
          apiLog[n][1] \in {"init", "getBudgets", "downloadBudget", "readFile", "shutdown"}

\* C12: when the source file cannot be read, no parsing, no account or
\* category creation, no posting import and no other pipeline component
\* runs, and the process ends with a non-zero exit code.
C12_UnreadableFileAborts ==
    ReadFailed => /\ NoComponentRan
                  /\ exitCode # None => exitCode # Some(0)


\* ------------------------------------------------------------------- C13
\* C13: with a required configuration value missing no collaborator call
\* and no file read is issued, and the process ends with a non-zero exit
\* code.
C13_MissingConfigIsFatal ==
    missingConfig # {} => /\ apiLog = <<>>
                          /\ exitCode # None => exitCode # Some(0)


\* ------------------------------------------------------------------- C14
\* The exact number of minor units of a Value with at most two digits after
\* the comma.
ExactCents(v) ==
    IF v.blank THEN 0
    ELSE (IF v.neg THEN -1 ELSE 1) *
         (v.whole * 100 + DigitsValue(v.frac) * Pow10(2 - Len(v.frac)))

\* A Value with three digits after the comma, the third a 5.
IsTie(v) == ~v.blank /\ Len(v.frac) = 3 /\ v.frac[3] = 5

\* The rules a tie can be rounded by.
RoundingRules == {"halfAwayFromZero", "halfTowardZero", "halfEven", "halfOdd", "halfUp", "halfDown"}

\* The minor units of a tie under a rule.
Rounded(rule, v) ==
    LET k == v.whole * 100 + v.frac[1] * 10 + v.frac[2]
        sign == IF v.neg THEN -1 ELSE 1
    IN  CASE rule = "halfAwayFromZero" -> sign * (k + 1)
          [] rule = "halfTowardZero" -> sign * k
          [] rule = "halfEven" -> sign * (IF k % 2 = 0 THEN k ELSE k + 1)
          [] rule = "halfOdd" -> sign * (IF k % 2 = 1 THEN k ELSE k + 1)
          [] rule = "halfUp" -> IF v.neg THEN 0 - k ELSE k + 1
          [] rule = "halfDown" -> IF v.neg THEN 0 - (k + 1) ELSE k

\* The amounts of the rows with at most two digits after the comma are exact.
AmountsExact ==
    \A i \in 1..Len(transactions) :
        Len(file[i].Value.frac) <= 2 => transactions[i].amount = ExactCents(file[i].Value)

\* C14: a Value with at most two digits after the comma is parsed to its
\* exact number of minor units (a blank one to 0), and the Values whose
\* third digit after the comma is 5 are all rounded by one rule, positive
\* and negative ones alike.
C14_ExactAndOneRoundingRule ==
    /\ AmountsExact
    /\ \E rule \in RoundingRules :
          \A i \in 1..Len(transactions) :
              IsTie(file[i].Value) => transactions[i].amount = Rounded(rule, file[i].Value)


\* ------------------------------------------------------------------- C15
\* The label of a person and of a group in a payee display name.
PersonLabel(person) == <<"<bust>", " ">> \o person \o <<" ">>
GroupLabel(group) == <<"<busts>", " ">> \o group \o <<" ">>

\* C15: the payee display name of every accepted row is its repaired
\* counter-account name if that is not empty, else the person label if the
\* repaired person is not empty, else the group label if the repaired group
\* is not empty, else the empty string.
C15_PayeePrecedence ==
    /\ Len(transactions) = Len(Accepted)
    /\ \A i \in 1..Len(transactions) :
          LET counter == cleanData(Accepted[i].CounterAccount)
              person == cleanData(Accepted[i].Person)
              group == cleanData(Accepted[i].Group)
          IN  /\ counter # <<>> => transactions[i].payee_name = counter
              /\ (counter = <<>> /\ person # <<>>) =>
                     transactions[i].payee_name = PersonLabel(person)
              /\ (counter = <<>> /\ person = <<>> /\ group # <<>>) =>
                     transactions[i].payee_name = GroupLabel(group)
              /\ (counter = <<>> /\ person = <<>> /\ group = <<>>) =>
                     transactions[i].payee_name = <<>>

\* A row with a person and a group and a row with a group only were
\* accepted, both without counter account, and a row with a counter account.
C15_Witness ==
    /\ Len(transactions) = Len(Accepted)
    /\ \E i, j, k \in 1..Len(transactions) :
          /\ cleanData(Accepted[i].CounterAccount) = <<>>
          /\ cleanData(Accepted[i].Person) # <<>> /\ cleanData(Accepted[i].Group) # <<>>
          /\ transactions[i].payee_name = PersonLabel(cleanData(Accepted[i].Person))
          /\ cleanData(Accepted[j].CounterAccount) = <<>>
          /\ cleanData(Accepted[j].Person) = <<>> /\ cleanData(Accepted[j].Group) # <<>>
          /\ transactions[j].payee_name = GroupLabel(cleanData(Accepted[j].Group))
          /\ transactions[k].payee_name = cleanData(Accepted[k].CounterAccount)
          /\ transactions[k].payee_name # <<>>


\* ------------------------------------------------------------------- C16
\* C16: a fully resolvable transfer pushes its primary posting under the
\* source account id, with the negated parsed amount, the counter account's
\* transfer-payee id as payee, payee_name null and category null, and its
\* mirrored posting under the counter account id, with the parsed amount,
\* the source account's transfer-payee id as payee and category null; both
\* are in the lists of these account ids.
C16_TransferPostingFields ==
    \A i \in 1..Len(emitted) :
        FullyResolvable(emitted[i].tx) =>
            LET t == emitted[i].tx
                sourceId == accountIdMap[t.acctName]
                counterId == accountIdMap[t.payee_name]
                primary == emitted[i].out[1]
                mirrored == emitted[i].out[2]
            IN  /\ Len(emitted[i].out) = 2
                /\ primary.acctId = sourceId
                /\ primary.posting.amount = 0 - t.amount
                /\ primary.posting.payee = Some(payeesByAccount[counterId])
                /\ primary.posting.payee_name = None
                /\ primary.posting.category = None
                /\ mirrored.acctId = counterId
                /\ mirrored.posting.amount = t.amount
                /\ mirrored.posting.payee = MapGet(payeesByAccount, sourceId)
                /\ mirrored.posting.category = None
                /\ primary.posting \in Range(PostingsOf(sourceId))
                /\ mirrored.posting \in Range(PostingsOf(counterId))

\* A transfer between two accounts that both have a transfer payee was
\* reconciled.
C16_Witness ==
    \E i \in 1..Len(emitted) :
        /\ FullyResolvable(emitted[i].tx)
        /\ emitted[i].tx.amount # 0
        /\ MapHas(payeesByAccount, accountIdMap[emitted[i].tx.acctName])
        /\ Len(emitted[i].out) = 2
        /\ emitted[i].out[2].posting.payee # None
        /\ emitted[i].out[1].posting.payee # emitted[i].out[2].posting.payee


\* ------------------------------------------------------------------- C17
\* C17: every transaction the reconciliation loop has handled is as the
\* loop found it (as the parse pass left it): type, amount and all other
\* fields.
C17_TransactionsNeverModified ==
    /\ Len(emitted) <= Len(transactions)
    /\ \A i \in 1..Len(emitted) : transactions[i] = emitted[i].tx


\* ------------------------------------------------------------------- C18
\* C18: once api.shutdown has been called no createAccount or
\* createCategory call is in flight, no call is issued after it, and it has
\* been called once.
C18_ShutdownQuiesces ==
    CallsOf("shutdown") # <<>> =>
        /\ pendingAccounts = {} /\ pendingCategories = {}
        /\ apiLog[Len(apiLog)] = Call("shutdown", None)
        /\ Len(CallsOf("shutdown")) = 1


\* ------------------------------------------------------------------- C19
\* The account names and the categories the accepted rows handled so far
\* name.
AcceptedAccountNames ==
    {cleanData(Accepted[i].Account) : i \in 1..Len(Accepted)} \cup
    {cleanData(Accepted[i].CounterAccount) : i \in 1..Len(Accepted)}

AcceptedCategories ==
    {[name |-> cleanData(Accepted[i].Category),
      is_income |-> toLowerCase(Accepted[i].EntryType) = "income"] : i \in 1..Len(Accepted)}

\* The handling of a dropped row: the next row is consumed and its date is
\* missing, unparseable or in the future.
DroppedRowStep == rowIdx' = rowIdx + 1 /\ IsDropped(file[rowIdx], now)

\* C19: handling a dropped row changes neither the account set, the
\* category set, the import identity index nor the transaction list; the
\* sets hold only what accepted rows name, and the index counts only
\* accepted rows.
C19_DroppedRowFrame ==
    /\ [][DroppedRowStep => UNCHANGED <<accounts, categories, importedIdMap, transactions>>]_vars
    /\ [](/\ Range(accounts) = AcceptedAccountNames \ {<<>>}
          /\ Range(categories) = {c \in AcceptedCategories : c.name # <<>>}
          /\ Len(transactions) = Len(Accepted)
          /\ DOMAIN importedIdMap = Range(Accepted)
          /\ \A h \in DOMAIN importedIdMap :
                Len(importedIdMap[h]) = Earlier(h, Len(Accepted)))

\* A row with an account and a category was dropped between two accepted
\* rows, and its account and category are in neither set.
C19_Witness ==
    \E i \in 2..(rowIdx - 1) :
        /\ IsDropped(file[i], now)
        /\ ~IsDropped(file[i - 1], now)
        /\ i + 1 <= rowIdx - 1 /\ ~IsDropped(file[i + 1], now)
        /\ cleanData(file[i].Account) # <<>>
        /\ cleanData(file[i].Account) \notin Range(accounts)
        /\ cleanData(file[i].Category) # <<>>
        /\ \A k \in 1..Len(categories) : categories[k].name # cleanData(file[i].Category)
        /\ Len(transactions) = 2


\* ------------------------------------------------------------------- C20
\* C20: every posting pushed by reconciliation has either a payee id and no
\* payee_name, or a payee_name and no payee id, and the mirrored posting of
\* every transfer pair has a payee id.
C20_PayeeExactlyOneWay ==
    \A i \in 1..Len(emitted) :
        /\ \A o \in Range(emitted[i].out) :
              \/ o.posting.payee # None /\ o.posting.payee_name = None
              \/ o.posting.payee = None /\ o.posting.payee_name # None
        /\ Len(emitted[i].out) = 2 => emitted[i].out[2].posting.payee # None


====
